---- MODULE Spec2Model ----
(***************************************************************************)
(* Simple Interest Calculator (src/app/index.tsx).                         *)
(*                                                                         *)
(* A text is a sequence of one-character strings.  A JavaScript number is  *)
(* a record [k |-> "nan"], [k |-> "inf", neg |-> b] or                     *)
(* [k |-> "fin", num |-> n, den |-> d] (the rational n/d, d a power of     *)
(* ten).  A time value is counted in half hours since the epoch            *)
(* (1800000 ms each), the finest grain of the time zones modelled.         *)
(***************************************************************************)
EXTENDS Integers, Sequences, FiniteSets, TLC

VARIABLES
  tz,              \* the device's time zone (environment of new Date(y, m, d))
  principal,       \* useState('') line 39
  startDate,       \* useState('') line 40
  endDate,         \* useState(formatDateToDDMMYYYY(getTodayIST())) line 41
  error,           \* line 42
  principalError,  \* line 43
  startDateError,  \* line 44
  results,         \* line 45
  pc,              \* "effect": a render's useEffect is pending; "idle": it has run
  raw,             \* pure-function harness: the raw keystrokes
  formatted,       \* pure-function harness: formatDateInput(raw)
  parsed,          \* pure-function harness: parseDateString(formatted)
  stage            \* pure-function harness: "input", "formatted", "parsed"; "app" in Spec

appVars == <<principal, startDate, endDate, error, principalError, startDateError, results, pc>>

pureVars == <<raw, formatted, parsed, stage>>

vars == <<tz, principal, startDate, endDate, error, principalError, startDateError, results, pc,
          raw, formatted, parsed, stage>>

-----------------------------------------------------------------------------
(* Characters and texts *)

DigitChars == <<"0", "1", "2", "3", "4", "5", "6", "7", "8", "9">>

IsDigit(c) == \E i \in 1..10 : DigitChars[i] = c

DigitVal(c) == (CHOOSE i \in 1..10 : DigitChars[i] = c) - 1

IsSpace(c) == c = " "

Min(a, b) == IF a < b THEN a ELSE b

\* String.prototype.slice(a, b) for 0 <= a <= b (indices are zero-based, b exclusive)
Slice(s, a, b) == SubSeq(s, a + 1, Min(b, Len(s)))

\* value.replace(/\D/g, '')
StripNonDigits(value) == SelectSeq(value, IsDigit)

\* formatDateInput with the year group cut open-ended, slice(4), not slice(4, 8)
formatDateInputNoCap(value, previousValue) ==
  LET digits == StripNonDigits(value)
      f1 == IF Len(digits) > 0 THEN Slice(digits, 0, 2) ELSE <<>>
      f2 == IF Len(digits) > 2 THEN f1 \o <<"/">> \o Slice(digits, 2, 4) ELSE f1
      f3 == IF Len(digits) > 4 THEN f2 \o <<"/">> \o Slice(digits, 4, Len(digits)) ELSE f2
  IN f3

\* formatDateInput, lines 47-58; previousValue is not read by the code
formatDateInput(value, previousValue) ==
  LET digits == StripNonDigits(value)
      f1 == IF Len(digits) > 0 THEN Slice(digits, 0, 2) ELSE <<>>
      f2 == IF Len(digits) > 2 THEN f1 \o <<"/">> \o Slice(digits, 2, 4) ELSE f1
      f3 == IF Len(digits) > 4 THEN f2 \o <<"/">> \o Slice(digits, 4, 8) ELSE f2
  IN f3

\* String.prototype.split('/')
RECURSIVE SplitSlash(_)
SplitSlash(s) ==
  IF \A i \in 1..Len(s) : s[i] # "/"
  THEN <<s>>
  ELSE LET i == CHOOSE j \in 1..Len(s) : s[j] = "/" /\ \A k \in 1..(j - 1) : s[k] # "/"
       IN <<SubSeq(s, 1, i - 1)>> \o SplitSlash(SubSeq(s, i + 1, Len(s)))

\* String.prototype.trim() leaves nothing
IsBlank(s) == \A i \in 1..Len(s) : IsSpace(s[i])

RECURSIVE TrimStart(_)
TrimStart(s) == IF s # <<>> /\ IsSpace(Head(s)) THEN TrimStart(Tail(s)) ELSE s

\* the longest prefix of decimal digits
RECURSIVE DigitPrefix(_)
DigitPrefix(s) ==
  IF s # <<>> /\ IsDigit(Head(s)) THEN <<Head(s)>> \o DigitPrefix(Tail(s)) ELSE <<>>

RECURSIVE DigitsToInt(_)
DigitsToInt(ds) ==
  IF ds = <<>> THEN 0 ELSE 10 * DigitsToInt(SubSeq(ds, 1, Len(ds) - 1)) + DigitVal(ds[Len(ds)])

RECURSIVE Pow10(_)
Pow10(n) == IF n = 0 THEN 1 ELSE 10 * Pow10(n - 1)

\* String(n) for an integer n >= 0
RECURSIVE IntToText(_)
IntToText(n) ==
  IF n < 10 THEN <<DigitChars[n + 1]>> ELSE IntToText(n \div 10) \o <<DigitChars[(n % 10) + 1]>>

\* String(n).padStart(2, '0')
PadStart2(t) == IF Len(t) < 2 THEN <<"0">> \o t ELSE t

-----------------------------------------------------------------------------
(* JavaScript numbers *)

NaN == [k |-> "nan"]

Infinity(neg) == [k |-> "inf", neg |-> neg]

Fin(num, den) == [k |-> "fin", num |-> num, den |-> den]

IsNaN(x) == x.k = "nan"

\* parseInt(s) with no radix, for texts over digits, sign, space and other
\* characters that are not "x"/"X" (no hexadecimal prefix among the inputs)
parseInt(s) ==
  LET t    == TrimStart(s)
      neg  == t # <<>> /\ Head(t) = "-"
      body == IF t # <<>> /\ Head(t) \in {"-", "+"} THEN Tail(t) ELSE t
      ds   == DigitPrefix(body)
  IN IF ds = <<>> THEN NaN
     ELSE Fin((IF neg THEN -1 ELSE 1) * DigitsToInt(ds), 1)

InfinityText == <<"I", "n", "f", "i", "n", "i", "t", "y">>

\* parseFloat(s), for texts without an exponent part
parseFloat(s) ==
  LET t     == TrimStart(s)
      neg   == t # <<>> /\ Head(t) = "-"
      body  == IF t # <<>> /\ Head(t) \in {"-", "+"} THEN Tail(t) ELSE t
      ip    == DigitPrefix(body)
      rest  == SubSeq(body, Len(ip) + 1, Len(body))
      fp    == IF rest # <<>> /\ Head(rest) = "." THEN DigitPrefix(Tail(rest)) ELSE <<>>
      sign  == IF neg THEN -1 ELSE 1
  IN IF Len(body) >= 8 /\ SubSeq(body, 1, 8) = InfinityText THEN Infinity(neg)
     ELSE IF ip = <<>> /\ fp = <<>> THEN NaN
     ELSE Fin(sign * (DigitsToInt(ip) * Pow10(Len(fp)) + DigitsToInt(fp)), Pow10(Len(fp)))

\* !x for a number: 0, -0 and NaN are falsy
IsFalsy(x) == x.k = "nan" \/ (x.k = "fin" /\ x.num = 0)

\* x <= 0
LeqZero(x) ==
  CASE x.k = "nan" -> FALSE
    [] x.k = "inf" -> x.neg
    [] x.k = "fin" -> x.num <= 0

-----------------------------------------------------------------------------
(* Date: calendar arithmetic of new Date(year, month, day), getTime() and   *)
(* the local-time getters.  A Date is [time |-> t] with t in half hours UTC *)
(* since the epoch; InvalidDate is the Date whose time value is NaN.        *)

UnitsPerHour == 2

UnitsPerDay == 24 * UnitsPerHour

\* day number (days since 1970-01-01) of the civil date y-m-d, m in 1..12
DaysFromCivil(y, m, d) ==
  LET yy  == IF m <= 2 THEN y - 1 ELSE y
      era == yy \div 400
      yoe == yy - era * 400
      mp  == IF m > 2 THEN m - 3 ELSE m + 9
      doy == (153 * mp + 2) \div 5 + d - 1
      doe == yoe * 365 + yoe \div 4 - yoe \div 100 + doy
  IN era * 146097 + doe - 719468

\* the civil date of a day number
CivilFromDays(z) ==
  LET zz  == z + 719468
      era == zz \div 146097
      doe == zz - era * 146097
      yoe == (doe - doe \div 1460 + doe \div 36524 - doe \div 146096) \div 365
      doy == doe - (365 * yoe + yoe \div 4 - yoe \div 100)
      mp  == (5 * doy + 2) \div 153
      d   == doy - (153 * mp + 2) \div 5 + 1
      m   == IF mp < 10 THEN mp + 3 ELSE mp - 9
      y   == yoe + era * 400 + (IF m <= 2 THEN 1 ELSE 0)
  IN [year |-> y, month |-> m, day |-> d]

\* MakeDay(year, month, date): month is a zero-based index of any size and
\* date any integer; both overflow into the neighbouring months and years
MakeDay(year, month, date) ==
  DaysFromCivil(year + (month \div 12), (month % 12) + 1, 1) + date - 1

\* 0 = Sunday; 1970-01-01 was a Thursday
WeekDay(day) == (day + 4) % 7

\* the first Sunday on or after a day
SundayOnOrAfter(day) == day + ((7 - WeekDay(day)) % 7)

\* The device's time zone is the environment of the Date constructor.  Two
\* zones are modelled: one without daylight saving time (UTC+5:30) and one
\* with it (UTC-5:00, clocks one hour ahead from 02:00 on the second Sunday
\* of March to 02:00 on the first Sunday of November; the rule is applied to
\* every year).
TimeZones == {"Asia/Kolkata", "America/New_York"}

StdOffset(zone) == IF zone = "Asia/Kolkata" THEN 11 ELSE 0 - 5 * UnitsPerHour

HasDST(zone) == zone = "America/New_York"

DstStartDay(y) == SundayOnOrAfter(DaysFromCivil(y, 3, 1)) + 7

DstEndDay(y) == SundayOnOrAfter(DaysFromCivil(y, 11, 1))

\* offset from UTC in force at the local time tl
OffsetAtLocal(zone, tl) ==
  LET y == CivilFromDays(tl \div UnitsPerDay).year
  IN IF HasDST(zone)
        /\ tl >= DstStartDay(y) * UnitsPerDay + 2 * UnitsPerHour
        /\ tl <  DstEndDay(y) * UnitsPerDay + 2 * UnitsPerHour
     THEN StdOffset(zone) + UnitsPerHour
     ELSE StdOffset(zone)

\* offset from UTC in force at the instant t
OffsetAtUTC(zone, t) ==
  LET y == CivilFromDays((t + StdOffset(zone)) \div UnitsPerDay).year
  IN IF HasDST(zone)
        /\ t >= DstStartDay(y) * UnitsPerDay + 2 * UnitsPerHour - StdOffset(zone)
        /\ t <  DstEndDay(y) * UnitsPerDay + 2 * UnitsPerHour - (StdOffset(zone) + UnitsPerHour)
     THEN StdOffset(zone) + UnitsPerHour
     ELSE StdOffset(zone)

InvalidDate == [invalid |-> TRUE, time |-> 0]

\* isNaN(date.getTime())
IsInvalidDate(date) == date.invalid

\* new Date(year, month, day) in the zone tz: local midnight of the day
\* MakeDay gives; a year 0..99 means 1900 + year; a NaN argument gives an
\* invalid date
NewDate(year, month, day) ==
  IF IsNaN(year) \/ IsNaN(month) \/ IsNaN(day) THEN InvalidDate
  ELSE LET yr == IF 0 <= year.num /\ year.num <= 99 THEN 1900 + year.num ELSE year.num
           tl == MakeDay(yr, month.num, day.num) * UnitsPerDay
       IN [invalid |-> FALSE, time |-> tl - OffsetAtLocal(tz, tl)]

getTime(date) == date.time

\* the local civil date of a valid Date
LocalCivil(date) == CivilFromDays((date.time + OffsetAtUTC(tz, date.time)) \div UnitsPerDay)

getDate(date) == LocalCivil(date).day

\* zero-based month index
getMonth(date) == LocalCivil(date).month - 1

getFullYear(date) == LocalCivil(date).year

\* x - 1 for a number parseInt returned
MinusOne(x) == IF IsNaN(x) THEN NaN ELSE Fin(x.num - 1, 1)

Null == [null |-> TRUE]

\* parseDateString, lines 25-36
parseDateString(dateStr) ==
  LET parts == SplitSlash(dateStr)
  IN IF Len(parts) # 3 THEN Null
     ELSE LET day   == parseInt(parts[1])
              month == MinusOne(parseInt(parts[2]))
              year  == parseInt(parts[3])
              date  == NewDate(year, month, day)
          IN IF IsInvalidDate(date) THEN Null ELSE date

\* formatDateToDDMMYYYY, lines 18-23
formatDateToDDMMYYYY(date) ==
  LET day   == PadStart2(IntToText(getDate(date)))
      month == PadStart2(IntToText(getMonth(date) + 1))
      year  == IntToText(getFullYear(date))
  IN day \o <<"/">> \o month \o <<"/">> \o year

\* getTodayIST, lines 12-16: the clock's instant moved ahead by 5.5 hours
getTodayIST(nowUTC) == [invalid |-> FALSE, time |-> nowUTC + 11]

-----------------------------------------------------------------------------
(* Arithmetic of the interest formula and Number.prototype.toFixed(2) *)

\* x * n for an integer n >= 0
Times(x, n) ==
  CASE x.k = "nan" -> NaN
    [] x.k = "inf" -> IF n = 0 THEN NaN ELSE x
    [] x.k = "fin" -> Fin(x.num * n, x.den)

\* x / n for an integer n > 0
DividedBy(x, n) ==
  CASE x.k = "nan" -> NaN
    [] x.k = "inf" -> x
    [] x.k = "fin" -> Fin(x.num, x.den * n)

RECURSIVE BitLength(_)
BitLength(n) == IF n = 0 THEN 0 ELSE 1 + BitLength(n \div 2)

\* Binary long division of r/b (0 <= r < b): k more significant bits are due,
\* started says whether the first 1 bit is out, last is the last bit out.
\* The result is the direction in which the quotient's 53-bit significand is
\* rounded (to nearest, ties to even): 1 up, 0 exact, -1 down.
RECURSIVE RoundingWalk(_, _, _, _, _)
RoundingWalk(r, b, k, started, last) ==
  IF r = 0 THEN 0
  ELSE IF k = 0
       THEN IF 2 * r > b \/ (2 * r = b /\ last = 1) THEN 1 ELSE -1
       ELSE LET bit == IF 2 * r >= b THEN 1 ELSE 0
                on  == started \/ bit = 1
            IN RoundingWalk(2 * r - bit * b, b, IF on THEN k - 1 ELSE k, on, bit)

\* the sign of (the double nearest a/b) - a/b, for integers a, b > 0 that
\* are themselves exact doubles
DoubleRounding(a, b) ==
  LET i == a \div b
  IN RoundingWalk(a % b, b, 53 - BitLength(i), i > 0, i % 2)

\* toFixed(2) of a number >= 0: the n with n/100 nearest the double, the
\* larger n when two are equally near.  The double is the one nearest
\* num/den, which is what line 110 computes when its dividend is an exact
\* double (it is for every principal of PrincipalInputs).
toFixed2(x) ==
  CASE x.k = "nan" -> <<"N", "a", "N">>
    [] x.k = "inf" -> InfinityText
    [] x.k = "fin" ->
         LET i  == x.num \div x.den
             r  == ((x.num % x.den) * 100) % x.den
             h  == i * 100 + ((x.num % x.den) * 100) \div x.den
             up == 2 * r > x.den \/ (2 * r = x.den /\ DoubleRounding(x.num, x.den) >= 0)
             n  == IF up THEN h + 1 ELSE h
         IN IntToText(n \div 100) \o <<".">> \o PadStart2(IntToText(n % 100))

-----------------------------------------------------------------------------
(* The screen: App, lines 38-121 *)

interestRates == <<3, 4, 7, 12>>

\* the error, flags and result the component holds
Display == [error |-> error, principalError |-> principalError,
            startDateError |-> startDateError, results |-> results]

\* the reset of lines 65-68 with the two flag resets left out
ResetErrorsMessageOnly(st) == [st EXCEPT !.error = ""]

\* lines 65-68
ResetErrors(st) == [st EXCEPT !.principalError = FALSE, !.startDateError = FALSE, !.error = ""]

\* lines 72-74
FailPrincipalRequired(st) ==
  [st EXCEPT !.principalError = TRUE, !.error = "Principal amount is required", !.results = Null]

\* lines 79-81
FailStartDateRequired(st) ==
  [st EXCEPT !.startDateError = TRUE, !.error = "Start date is required", !.results = Null]

\* lines 87-88
FailInvalidPrincipal(st) ==
  [st EXCEPT !.error = "Enter valid principal amount", !.results = Null]

\* lines 94-95
FailInvalidDates(st) == [st EXCEPT !.error = "Enter valid dates", !.results = Null]

\* lines 100-101 with setResults(null) left out
FailDateOrderKeepResults(st) == [st EXCEPT !.error = "Start date cannot be after end date"]

\* lines 100-101
FailDateOrder(st) == [st EXCEPT !.error = "Start date cannot be after end date", !.results = Null]

\* line 71
PrincipalMissing(p) == p = <<>> \/ IsBlank(p)

\* line 78
StartDateMissing(s) == s = <<>> \/ IsBlank(s)

\* line 86
PrincipalInvalid(principalNum) ==
  IsFalsy(principalNum) \/ IsNaN(principalNum) \/ LeqZero(principalNum)

\* line 93
DatesInvalid(startDateObj, endDateObj) == startDateObj = Null \/ endDateObj = Null

\* line 99
StartAfterEnd(startDateObj, endDateObj) == getTime(startDateObj) > getTime(endDateObj)

\* lines 105-107
DayDiff(startDateObj, endDateObj) ==
  (getTime(endDateObj) - getTime(startDateObj)) \div UnitsPerDay

\* lines 110-111
InterestEntry(principalNum, rate, dayDiff) ==
  [rate |-> rate,
   interest |-> toFixed2(DividedBy(Times(Times(principalNum, rate), dayDiff), 100 * 365))]

\* lines 105-114
Succeed(st, principalNum, startDateObj, endDateObj) ==
  LET dayDiff == DayDiff(startDateObj, endDateObj)
      data    == [i \in 1..Len(interestRates) |->
                    InterestEntry(principalNum, interestRates[i], dayDiff)]
  IN [st EXCEPT !.results = [dayDiff |-> dayDiff, data |-> data,
                             startDate |-> startDate, endDate |-> endDate]]

\* calculateInterest with the two required-field checks in the other order
calculateInterestStartFirst(st) ==
  LET principalNum == parseFloat(principal)
      startDateObj == parseDateString(startDate)
      endDateObj   == parseDateString(endDate)
      s0           == ResetErrors(st)
  IN IF StartDateMissing(startDate) THEN FailStartDateRequired(s0)
     ELSE IF PrincipalMissing(principal) THEN FailPrincipalRequired(s0)
     ELSE IF PrincipalInvalid(principalNum) THEN FailInvalidPrincipal(s0)
     ELSE IF DatesInvalid(startDateObj, endDateObj) THEN FailInvalidDates(s0)
     ELSE IF StartAfterEnd(startDateObj, endDateObj) THEN FailDateOrder(s0)
     ELSE Succeed(s0, principalNum, startDateObj, endDateObj)

\* calculateInterest, lines 60-115, on the display st of the render it runs in
calculateInterest(st) ==
  LET principalNum == parseFloat(principal)
      startDateObj == parseDateString(startDate)
      endDateObj   == parseDateString(endDate)
      s0           == ResetErrors(st)
  IN IF PrincipalMissing(principal) THEN FailPrincipalRequired(s0)
     ELSE IF StartDateMissing(startDate) THEN FailStartDateRequired(s0)
     ELSE IF PrincipalInvalid(principalNum) THEN FailInvalidPrincipal(s0)
     ELSE IF DatesInvalid(startDateObj, endDateObj) THEN FailInvalidDates(s0)
     ELSE IF StartAfterEnd(startDateObj, endDateObj) THEN FailDateOrder(s0)
     ELSE Succeed(s0, principalNum, startDateObj, endDateObj)

\* the guard of line 118 reading the principal alone
EffectGuardPrincipalOnly == principal # <<>>

\* line 118
EffectGuard == principal # <<>> \/ startDate # <<>> \/ endDate # <<>>

\* Texts typed or pasted into the principal field (onChangeText passes them
\* on unchanged, line 133).  Every numeric one is a dyadic rational, so the
\* products of the interest formula are exact doubles.
PrincipalInputs ==
  { <<>>,
    <<" ">>,
    <<"0">>,
    <<"-", "5">>,
    <<"a", "b", "c">>,
    <<"1", "2", "a", "b", "c">>,
    <<"1", "0", "0", "0">>,
    <<"3", "6", ".", "5">>,
    InfinityText }

\* Raw texts the date fields hand to formatDateInput (lines 141, 152)
DateInputs ==
  { <<>>,
    <<"1">>,
    <<"0", "1", "0", "2">>,
    <<"0", "1", "/", "0", "1", "/", "2", "4">>,
    <<"0", "1", "0", "1", "2", "0", "2", "4">>,
    <<"0", "6", "0", "1", "2", "0", "2", "4">>,
    <<"3", "1", "/", "0", "1", "/", "2", "0", "2", "4">>,
    <<"3", "1", "0", "2", "2", "0", "2", "4">>,
    <<"1", "0", "-", "0", "3", "-", "2", "0", "2", "4">>,
    <<"1", "1", "0", "3", "2", "0", "2", "4">> }

\* Instants at which the screen is mounted: 2024-03-15 12:00 and 20:00 UTC
Nows ==
  { DaysFromCivil(2024, 3, 15) * UnitsPerDay + 12 * UnitsPerHour,
    DaysFromCivil(2024, 3, 15) * UnitsPerDay + 20 * UnitsPerHour }

\* lines 39-45, before the first effect has run
Init ==
  /\ tz \in TimeZones
  /\ principal = <<>>
  /\ startDate = <<>>
  /\ endDate \in {formatDateToDDMMYYYY(getTodayIST(now)) : now \in Nows}
  /\ error = ""
  /\ principalError = FALSE
  /\ startDateError = FALSE
  /\ results = Null
  /\ pc = "effect"
  /\ raw = <<>>
  /\ formatted = <<>>
  /\ parsed = Null
  /\ stage = "app"

\* useEffect, lines 117-121: runs after the render that a changed field caused
Effect ==
  /\ pc = "effect"
  /\ LET st == IF EffectGuard THEN calculateInterest(Display) ELSE Display
     IN /\ error' = st.error
        /\ principalError' = st.principalError
        /\ startDateError' = st.startDateError
        /\ results' = st.results
  /\ pc' = "idle"
  /\ UNCHANGED <<tz, principal, startDate, endDate, pureVars>>

\* a state setter schedules a render (and its effect) only when the value changes
AfterSet(old, new) == IF new # old THEN "effect" ELSE "idle"

\* onChangeText={setPrincipal}, line 133
EditPrincipal ==
  /\ pc = "idle"
  /\ \E value \in PrincipalInputs :
       /\ principal' = value
       /\ pc' = AfterSet(principal, value)
  /\ UNCHANGED <<tz, startDate, endDate, error, principalError, startDateError, results, pureVars>>

\* onChangeText of the start date, line 141
EditStartDate ==
  /\ pc = "idle"
  /\ \E value \in DateInputs :
       /\ startDate' = formatDateInput(value, startDate)
       /\ pc' = AfterSet(startDate, startDate')
  /\ UNCHANGED <<tz, principal, endDate, error, principalError, startDateError, results, pureVars>>

\* onChangeText of the end date, line 152
EditEndDate ==
  /\ pc = "idle"
  /\ \E value \in DateInputs :
       /\ endDate' = formatDateInput(value, endDate)
       /\ pc' = AfterSet(endDate, endDate')
  /\ UNCHANGED <<tz, principal, startDate, error, principalError, startDateError, results, pureVars>>

Next == Effect \/ EditPrincipal \/ EditStartDate \/ EditEndDate

Spec == Init /\ [][Next]_vars

-----------------------------------------------------------------------------
(* formatDateInput and parseDateString as pure functions *)

MaxRawLen == 9

\* characters of a raw text: two digits, the separator, another non-digit
RawAlphabet == {"1", "2", "/", "a"}

\* the raw texts of length n
RawTexts(n) == [1..n -> RawAlphabet]

\* the action of formatDateInput on the raw text
Format ==
  /\ stage = "input"
  /\ formatted' = formatDateInput(raw, <<>>)
  /\ stage' = "formatted"
  /\ UNCHANGED <<tz, appVars, raw, parsed>>

\* the action of parseDateString on the formatted text
Parse ==
  /\ stage = "formatted"
  /\ parsed' = parseDateString(formatted)
  /\ stage' = "parsed"
  /\ UNCHANGED <<tz, appVars, raw, formatted>>

InitPure ==
  /\ principal = <<>>
  /\ startDate = <<>>
  /\ endDate = <<>>
  /\ error = ""
  /\ principalError = FALSE
  /\ startDateError = FALSE
  /\ results = Null
  /\ pc = "idle"
  /\ formatted = <<>>
  /\ parsed = Null
  /\ stage = "input"

InitFormat ==
  /\ tz = "Asia/Kolkata"
  /\ \E n \in 0..MaxRawLen : raw \in RawTexts(n)
  /\ InitPure

NextFormat == Format

SpecFormat == InitFormat /\ [][NextFormat]_vars

IsLeapYear(y) == (y % 4 = 0 /\ y % 100 # 0) \/ y % 400 = 0

DaysInMonth(y, m) ==
  IF m = 2 THEN (IF IsLeapYear(y) THEN 29 ELSE 28)
  ELSE IF m \in {4, 6, 9, 11} THEN 30 ELSE 31

\* String(n).padStart(4, '0')
RECURSIVE PadStart4(_)
PadStart4(t) == IF Len(t) < 4 THEN PadStart4(<<"0">> \o t) ELSE t

\* the eight keystrokes DDMMYYYY of a civil date
Keystrokes(y, m, d) ==
  PadStart2(IntToText(d)) \o PadStart2(IntToText(m)) \o PadStart4(IntToText(y))

RoundTripYears == {0, 24, 99, 100, 1900, 2000, 2023, 2024, 9999}

RoundTripInputs ==
  {Keystrokes(y, m, d) : <<y, m, d>> \in
     {t \in RoundTripYears \X (1..12) \X (1..31) : t[3] <= DaysInMonth(t[1], t[2])}}

InitRoundTrip == tz \in TimeZones /\ raw \in RoundTripInputs /\ InitPure

NextRoundTrip == Format \/ Parse

SpecRoundTrip == InitRoundTrip /\ [][NextRoundTrip]_vars

-----------------------------------------------------------------------------
(* Claims *)

\* the effect of the current render has run calculateInterest
Calculated == pc = "idle" /\ EffectGuard

\* the principal text denotes a number > 0
PrincipalPositive ==
  LET x == parseFloat(principal)
  IN (x.k = "fin" /\ x.num > 0) \/ (x.k = "inf" /\ ~x.neg)

\* the principal text denotes a finite number > 0
PrincipalFinitePositive ==
  LET x == parseFloat(principal)
  IN x.k = "fin" /\ x.num > 0

BothDatesParse == parseDateString(startDate) # Null /\ parseDateString(endDate) # Null

\* the message of the first failing check in the order of the claim, "" if none fails
FirstFailingCheck ==
  CASE IsBlank(principal) -> "Principal amount is required"
    [] ~IsBlank(principal) /\ IsBlank(startDate) -> "Start date is required"
    [] ~IsBlank(principal) /\ ~IsBlank(startDate) /\ ~PrincipalPositive ->
         "Enter valid principal amount"
    [] ~IsBlank(principal) /\ ~IsBlank(startDate) /\ PrincipalPositive /\ ~BothDatesParse ->
         "Enter valid dates"
    [] ~IsBlank(principal) /\ ~IsBlank(startDate) /\ PrincipalPositive /\ BothDatesParse
         /\ getTime(parseDateString(startDate)) > getTime(parseDateString(endDate)) ->
         "Start date cannot be after end date"
    [] OTHER -> ""

\* C1: after calculateInterest has run on the current fields, the error shown
\* is the message of the first failing check in the order principal required,
\* start date required, valid principal, valid dates, start not after end;
\* a later check's message never appears while an earlier check fails.
C1_FirstFailingCheckWins == Calculated => error = FirstFailingCheck

\* C1 witness: principal and start date both empty report the principal
C1_Witness ==
  /\ Calculated
  /\ principal = <<>>
  /\ startDate = <<>>
  /\ error = "Principal amount is required"

ShowsError == error # "" /\ results = Null

ShowsResult == results # Null /\ error = "" /\ ~principalError /\ ~startDateError

\* C2: once the effect has run, exactly one of the two is shown: a non-empty
\* error with no result, or a result with the error empty and both flags off.
C2_ErrorXorResult == pc = "idle" => (ShowsError \/ ShowsResult) /\ ~(ShowsError /\ ShowsResult)

\* C2 witness: a failed validation is on screen where a result can have been
C2_Witness ==
  /\ pc = "idle"
  /\ error = "Start date cannot be after end date"
  /\ results = Null

\* C3: after every edit the displayed error/result is what calculateInterest
\* yields for the current three fields, also when all three are empty.
C3_DisplayIsRecomputed == pc = "idle" => Display = calculateInterest(Display)

\* C4: with a non-blank principal and start date, a principal text that does
\* not denote a finite number > 0 is rejected with "Enter valid principal
\* amount" and no result; a result appears only for a finite number > 0.
C4_FinitePositivePrincipalOnly ==
  /\ (Calculated /\ ~IsBlank(principal) /\ ~IsBlank(startDate) /\ ~PrincipalFinitePositive)
       => (error = "Enter valid principal amount" /\ results = Null)
  /\ (pc = "idle" /\ results # Null) => PrincipalFinitePositive

AllDigits(t) == \A i \in 1..Len(t) : IsDigit(t[i])

\* D{1,2}(/D{1,2}(/D{1,4})?)?
MatchesDatePattern(t) ==
  LET parts == SplitSlash(t)
  IN /\ Len(parts) \in 1..3
     /\ \A i \in 1..Len(parts) : AllDigits(parts[i])
     /\ Len(parts[1]) \in 1..2
     /\ Len(parts) >= 2 => Len(parts[2]) \in 1..2
     /\ Len(parts) >= 3 => Len(parts[3]) \in 1..4

\* the digits of a text, in order
DigitsOf(t) == SelectSeq(t, LAMBDA c : c \in {"0", "1", "2", "3", "4", "5", "6", "7", "8", "9"})

FirstEightDigits(t) == LET ds == DigitsOf(t) IN SubSeq(ds, 1, Min(8, Len(ds)))

\* positions of the separators in a text
SlashPositions(t) == {i \in 1..Len(t) : t[i] = "/"}

\* a separator follows the 2nd digit iff a 3rd exists, the 4th iff a 5th exists
ExpectedSlashPositions(n) ==
  (IF n >= 3 THEN {3} ELSE {}) \cup (IF n >= 5 THEN {6} ELSE {})

FormatContract ==
  LET ds == FirstEightDigits(raw)
      sl == SlashPositions(formatted)
  IN /\ Len(formatted) <= 10
     /\ DigitsOf(formatted) = ds
     /\ sl = ExpectedSlashPositions(Len(ds))
     /\ Len(formatted) = Len(ds) + Cardinality(sl)

\* C5 as claimed: for every raw text, the empty one and the digitless ones
\* included, the output has length <= 10, matches D{1,2}(/D{1,2}(/D{1,4})?)?
\* and carries the first 8 digits in order with the separators in place.
C5_AlwaysMatchesPattern ==
  stage = "formatted" => (FormatContract /\ MatchesDatePattern(formatted))

\* C5 amended: the output has length <= 10 and carries the first 8 digits in
\* order with the separators in place; it is empty when the raw text has no
\* digit and matches D{1,2}(/D{1,2}(/D{1,4})?)? otherwise.
C5_MatchesPatternOrEmpty ==
  stage = "formatted" =>
    /\ FormatContract
    /\ IF DigitsOf(raw) = <<>> THEN formatted = <<>> ELSE MatchesDatePattern(formatted)

\* C5 witness: a raw text with more than 8 digits has been formatted
C5_Witness ==
  /\ stage = "formatted"
  /\ Len(DigitsOf(raw)) > 8
  /\ Len(formatted) = 10

\* C6: for the keystrokes DDMMYYYY of a real calendar day, formatDateInput
\* gives DD/MM/YYYY and parseDateString gives a date with day DD, month index
\* MM - 1 and year YYYY.
C6_RoundTrip ==
  stage = "parsed" =>
    /\ formatted = SubSeq(raw, 1, 2) \o <<"/">> \o SubSeq(raw, 3, 4) \o <<"/">> \o SubSeq(raw, 5, 8)
    /\ parsed # Null
    /\ IF parsed = Null THEN FALSE
       ELSE /\ getDate(parsed) = DigitsToInt(SubSeq(raw, 1, 2))
            /\ getMonth(parsed) = DigitsToInt(SubSeq(raw, 3, 4)) - 1
            /\ getFullYear(parsed) = DigitsToInt(SubSeq(raw, 5, 8))

\* day number of the local calendar day of a Date
LocalDayNumber(date) == (date.time + OffsetAtUTC(tz, date.time)) \div UnitsPerDay

ZeroText == <<"0", ".", "0", "0">>

\* C7: in every result dayDifference is >= 0 and is the number of days from
\* the parsed start date to the parsed end date; it is 0 exactly when both
\* are the same date, and then (the principal being finite) every interest
\* entry is "0.00"; start after end never gives a result.
C7_WholeDaysBetweenDates ==
  (pc = "idle" /\ results # Null) =>
    LET s == parseDateString(startDate)
        e == parseDateString(endDate)
    IN /\ s # Null /\ e # Null
       /\ IF s = Null \/ e = Null THEN FALSE
          ELSE /\ LocalDayNumber(s) <= LocalDayNumber(e)
               /\ results.dayDiff >= 0
               /\ results.dayDiff = LocalDayNumber(e) - LocalDayNumber(s)
               /\ (results.dayDiff = 0) <=> (LocalDayNumber(s) = LocalDayNumber(e))
               /\ (results.dayDiff = 0 /\ PrincipalFinitePositive) =>
                    \A i \in 1..Len(results.data) : results.data[i].interest = ZeroText

\* num/den rounded to two decimals, a tie going up, as text
RoundedToCents(num, den) ==
  LET i == num \div den
      h == i * 100 + ((num % den) * 100) \div den
      r == ((num % den) * 100) % den
      n == IF 2 * r >= den THEN h + 1 ELSE h
  IN IntToText(n \div 100) \o <<".">> \o PadStart2(IntToText(n % 100))

\* C8: a finite principal > 0 with dates that parse and start <= end gives a
\* result of exactly 4 entries with rates 3, 4, 7, 12 in that order, each
\* interest being principal * rate * dayDifference / (100 * 365) rounded to
\* 2 decimal places.
C8_FourRoundedEntries ==
  /\ (Calculated /\ ~IsBlank(startDate) /\ PrincipalFinitePositive /\ BothDatesParse
        /\ FirstFailingCheck = "") => results # Null
  /\ (pc = "idle" /\ results # Null /\ PrincipalFinitePositive) =>
       LET x == parseFloat(principal)
       IN /\ Len(results.data) = 4
          /\ [i \in 1..4 |-> results.data[i].rate] = <<3, 4, 7, 12>>
          /\ \A i \in 1..4 :
               results.data[i].interest =
                 RoundedToCents(x.num * results.data[i].rate * results.dayDiff,
                                x.den * 100 * 365)

\* C9: whenever a result is shown after the effect has run, the dates it
\* echoes are the current field texts and the principal field is not empty.
C9_NoStaleResult ==
  (pc = "idle" /\ results # Null) =>
    /\ results.startDate = startDate
    /\ results.endDate = endDate
    /\ principal # <<>>

\* C9 witness: a result is on screen for the current fields
C9_Witness ==
  /\ pc = "idle"
  /\ results # Null
  /\ startDate # <<>>
  /\ results.startDate = startDate

\* C10: in every state principalError holds iff the error is "Principal
\* amount is required", startDateError iff it is "Start date is required";
\* the flags are never both on and are off for every other error.
C10_FlagsAgreeWithError ==
  /\ principalError <=> (error = "Principal amount is required")
  /\ startDateError <=> (error = "Start date is required")
  /\ ~(principalError /\ startDateError)

\* C10 witness: each flag has been raised in turn, here the start-date one
C10_Witness ==
  /\ startDateError
  /\ ~principalError
  /\ error = "Start date is required"

====
